---- MODULE Spec2Model ----
(***************************************************************************)
(* Request lifecycle of the RandomJoke component (src/src/RandomJoke.js,   *)
(* final version with cancel token + mounted ref) driven by App            *)
(* (src/src/App.js).                                                       *)
(*                                                                         *)
(* React and axios are the environment.  What is assumed of them:          *)
(*  - useState: setMore(v) queues v; the next render takes the last queued *)
(*    value; the loadMore closure sees the `more` of the render that       *)
(*    created it.                                                          *)
(*  - useEffect(f, [more]): when `more` differs between two renders the    *)
(*    effect is scheduled; flushing it runs the previous cleanup and then  *)
(*    f, synchronously.  Pending effects are flushed before the next       *)
(*    render and before unmount.  Unmount runs every cleanup.              *)
(*  - axios: a request whose token is cancelled while it is in flight      *)
(*    rejects with a Cancel; cancelling a settled request does nothing.    *)
(*    The continuation of `await` runs in the same task as the delivery.   *)
(***************************************************************************)
EXTENDS Naturals, Sequences, FiniteSets

VARIABLES more, updateQueue, effectsPending, lifecycle, componentIsMounted,
          joke, requests, commits,
          version,        \* which of the three versions of RandomJoke.js runs
          writesInRun,    \* setJoke calls since the last run of the fetch effect
          triggerChanges, \* renders that saw a changed `more`
          refJoke         \* joke text of the sequence-number reference

vars == <<more, updateQueue, effectsPending, lifecycle, componentIsMounted,
          joke, requests, commits, version, writesInRun, triggerChanges, refJoke>>

(* ---- bounds ---- *)
MaxRequests == 3
MaxQueue == 2
NumJokes == 2

JokeTexts == <<"a", "b", "c", "d">>
Jokes == {JokeTexts[i] : i \in 1..NumJokes}

(* the value of an absent property / of `undefined` handed to setJoke *)
Undefined == "undefined"

(* asyncResponse.data as the endpoint may send it:                          *)
(*   joke        { value: { joke: X } }                                     *)
(*   valueNoJoke { value: {} }                                              *)
(*   noValue     {}            (or any non-null body without `value`)       *)
(*   nullData    null                                                       *)
NoData == [kind |-> "none", joke |-> ""]
ResponseData ==
    {[kind |-> "joke", joke |-> j] : j \in Jokes}
    \cup {[kind |-> k, joke |-> ""] : k \in {"valueNoJoke", "noValue", "nullData"}}

Last(s) == s[Len(s)]

TypeOK ==
    /\ more \in BOOLEAN
    /\ updateQueue \in Seq(BOOLEAN)
    /\ effectsPending \in BOOLEAN
    /\ lifecycle \in {"mounted", "unmounted"}
    /\ componentIsMounted \in BOOLEAN
    /\ joke \in Jokes \cup {"", Undefined}
    /\ Len(requests) <= MaxRequests
    /\ \A r \in 1..Len(requests) :
          /\ requests[r].cancelled \in BOOLEAN
          /\ requests[r].state \in {"inflight", "fulfilled", "rejected", "cancelled"}
          /\ requests[r].data \in ResponseData \cup {NoData}
          /\ requests[r].logged \in {"none", "info", "error"}
          /\ requests[r].settledWhen \in {"none", "mounted", "unmounted"}
    /\ \A i \in 1..Len(commits) : commits[i] \in 1..Len(requests)
    /\ version \in {"first", "refOnly", "final"}
    /\ writesInRun \in 0..MaxRequests
    /\ triggerChanges \in 0..MaxRequests
    /\ refJoke \in Jokes \cup {"", Undefined}

(* ---- App ---- *)

(* the state value a render would produce now *)
CurrentTrigger == IF updateQueue = <<>> THEN more ELSE Last(updateQueue)

(* loadMore = () => setMore(!more): `more` is the rendered value *)
LoadMoreValue(rendered) == ~rendered

LoadMore ==
    /\ lifecycle = "mounted"
    /\ Len(updateQueue) < MaxQueue
    /\ Len(requests) + (IF effectsPending THEN 1 ELSE 0) < MaxRequests
    /\ updateQueue' = Append(updateQueue, LoadMoreValue(more))
    /\ UNCHANGED <<more, effectsPending, lifecycle, componentIsMounted,
                   joke, requests, commits, version, writesInRun,
                   triggerChanges, refJoke>>

(* re-render of App and RandomJoke: the deps [more] are compared *)
Render ==
    /\ lifecycle = "mounted"
    /\ updateQueue # <<>>
    /\ ~effectsPending
    /\ more' = Last(updateQueue)
    /\ updateQueue' = <<>>
    /\ effectsPending' = (Last(updateQueue) # more)
    /\ triggerChanges' = triggerChanges + (IF Last(updateQueue) # more THEN 1 ELSE 0)
    /\ UNCHANGED <<lifecycle, componentIsMounted, joke, requests, commits,
                   version, writesInRun, refJoke>>

(* ---- RandomJoke: the fetch effect ---- *)

NewRequest ==
    [cancelled |-> FALSE, state |-> "inflight", data |-> NoData,
     logged |-> "none", settledWhen |-> "none"]

CancelNone(reqs) == reqs

(* cancelTokenSource.cancel(...) of the latest run, if there is one *)
CancelLatest(reqs) ==
    IF reqs = <<>> THEN reqs
    ELSE [reqs EXCEPT ![Len(reqs)].cancelled = TRUE]

(* CancelToken.source(); fetchJoke() *)
IssueRequest(reqs) == Append(reqs, NewRequest)

RunEffectNoCancel(reqs) == IssueRequest(reqs)

(* cleanup of the previous run, then the effect body *)
RunEffect(reqs) == IssueRequest(CancelLatest(reqs))

FlushEffects ==
    /\ lifecycle = "mounted"
    /\ effectsPending
    /\ Len(requests) < MaxRequests
    /\ requests' = RunEffect(requests)
    /\ effectsPending' = FALSE
    /\ writesInRun' = 0
    /\ UNCHANGED <<more, updateQueue, lifecycle, componentIsMounted, joke, commits,
                   version, triggerChanges, refJoke>>

(* ---- RandomJoke: unmount ---- *)

UnmountFlagKept(flag) == flag

(* componentIsMounted.current = false *)
UnmountFlag(flag) == FALSE

UnmountNoCancel(reqs) == reqs

(* the fetch effect's cleanup at unmount *)
UnmountCleanup(reqs) == CancelLatest(reqs)

Unmount ==
    /\ lifecycle = "mounted"
    /\ ~effectsPending
    /\ lifecycle' = "unmounted"
    /\ componentIsMounted' = UnmountFlag(componentIsMounted)
    /\ requests' = UnmountCleanup(requests)
    /\ UNCHANGED <<more, updateQueue, effectsPending, joke, commits,
                   version, writesInRun, triggerChanges, refJoke>>

(* ---- fetchJoke after the await ---- *)

Settle(r, st, d, lg) ==
    [requests EXCEPT ![r].state = st, ![r].data = d, ![r].logged = lg,
                     ![r].settledWhen = lifecycle]

(* const { value } = asyncResponse.data  throws on null data *)
DestructureThrows(d) == d.kind = "nullData"

(* value.joke throws when value is undefined *)
JokeThrows(d) == d.kind = "noValue"

(* value.joke *)
JokeOf(d) == IF d.kind = "joke" THEN d.joke ELSE Undefined

GuardAlwaysTrue(flag) == TRUE

(* if (componentIsMounted.current) *)
MountedGuard(flag) == flag

SetJokeKeepFirst(prev, v) == IF prev = "" THEN v ELSE prev

(* setJoke(value.joke) *)
SetJoke(prev, v) == v

(* lines 26-37 for a delivered response *)
Continue(r, d) ==
    IF DestructureThrows(d)
    THEN /\ requests' = Settle(r, "fulfilled", d, "error")
         /\ UNCHANGED <<joke, commits, writesInRun>>
    ELSE IF MountedGuard(componentIsMounted)
    THEN IF JokeThrows(d)
         THEN /\ requests' = Settle(r, "fulfilled", d, "error")
              /\ UNCHANGED <<joke, commits, writesInRun>>
         ELSE /\ requests' = Settle(r, "fulfilled", d, "none")
              /\ joke' = SetJoke(joke, JokeOf(d))
              /\ commits' = Append(commits, r)
              /\ writesInRun' = writesInRun + 1
    ELSE /\ requests' = Settle(r, "fulfilled", d, "none")
         /\ UNCHANGED <<joke, commits, writesInRun>>

(* the reference of spec section 9: every fetch attempt carries a sequence  *)
(* number (its index in requests); a successful response is committed only *)
(* if its number is still the current one and the component is mounted.    *)
(* The reference differs from the code in the gate only: what it writes is *)
(* value.joke of the response, and a response from which value.joke cannot *)
(* be read writes nothing.                                                 *)
ReferenceCommit(r, d) ==
    IF /\ r = Len(requests)
       /\ lifecycle = "mounted"
       /\ ~DestructureThrows(d)
       /\ ~JokeThrows(d)
    THEN JokeOf(d)
    ELSE refJoke

(* the response arrives for a request that was not cancelled *)
Resolve(r, d) ==
    /\ requests[r].state = "inflight"
    /\ ~requests[r].cancelled
    /\ Continue(r, d)
    /\ refJoke' = ReferenceCommit(r, d)
    /\ UNCHANGED <<more, updateQueue, effectsPending, lifecycle, componentIsMounted,
                   version, triggerChanges>>

RejectAndRetry(r) ==
    /\ requests[r].state = "inflight"
    /\ ~requests[r].cancelled
    /\ requests' = Append(Settle(r, "rejected", NoData, "error"), NewRequest)
    /\ UNCHANGED <<more, updateQueue, effectsPending, lifecycle, componentIsMounted,
                   joke, commits, version, writesInRun, triggerChanges, refJoke>>

(* transport error: catch, not a Cancel, console.error *)
Reject(r) ==
    /\ requests[r].state = "inflight"
    /\ ~requests[r].cancelled
    /\ requests' = Settle(r, "rejected", NoData, "error")
    /\ UNCHANGED <<more, updateQueue, effectsPending, lifecycle, componentIsMounted,
                   joke, commits, version, writesInRun, triggerChanges, refJoke>>

(* the cancelled request rejects with a Cancel: catch, console.info *)
RejectCancel(r) ==
    /\ requests[r].state = "inflight"
    /\ requests[r].cancelled
    /\ requests' = Settle(r, "cancelled", NoData, "info")
    /\ UNCHANGED <<more, updateQueue, effectsPending, lifecycle, componentIsMounted,
                   joke, commits, version, writesInRun, triggerChanges, refJoke>>

(* a transport that ignores the cancellation delivers the response anyway *)
ResolveDespiteCancel(r, d) ==
    /\ requests[r].state = "inflight"
    /\ requests[r].cancelled
    /\ Continue(r, d)
    /\ refJoke' = ReferenceCommit(r, d)
    /\ UNCHANGED <<more, updateQueue, effectsPending, lifecycle, componentIsMounted,
                   version, triggerChanges>>

InitCommon ==
    /\ more = FALSE
    /\ updateQueue = <<>>
    /\ effectsPending = TRUE
    /\ lifecycle = "mounted"
    /\ componentIsMounted = TRUE
    /\ joke = ""
    /\ requests = <<>>
    /\ commits = <<>>
    /\ writesInRun = 0
    /\ triggerChanges = 0
    /\ refJoke = ""

Init == InitCommon /\ version = "final"

Next ==
    \/ LoadMore
    \/ Render
    \/ FlushEffects
    \/ Unmount
    \/ \E r \in 1..Len(requests) : \E d \in ResponseData : Resolve(r, d)
    \/ \E r \in 1..Len(requests) : Reject(r)
    \/ \E r \in 1..Len(requests) : RejectCancel(r)

Spec == Init /\ [][Next]_vars

NextUncooperative ==
    \/ Next
    \/ \E r \in 1..Len(requests) : \E d \in ResponseData : ResolveDespiteCancel(r, d)

SpecUncooperative == Init /\ [][NextUncooperative]_vars

(* ---- RandomJoke, ref-only second version (lines 59-97) ---- *)

(* the fetch effect has no cleanup and no cancel token *)
RunEffectRefOnly(reqs) == Append(reqs, NewRequest)

FlushEffectsRefOnly ==
    /\ lifecycle = "mounted"
    /\ effectsPending
    /\ Len(requests) < MaxRequests
    /\ requests' = RunEffectRefOnly(requests)
    /\ effectsPending' = FALSE
    /\ writesInRun' = 0
    /\ UNCHANGED <<more, updateQueue, lifecycle, componentIsMounted, joke, commits,
                   version, triggerChanges, refJoke>>

(* componentIsMounted.current = false *)
UnmountFlagRefOnly(flag) == FALSE

UnmountRefOnly ==
    /\ lifecycle = "mounted"
    /\ ~effectsPending
    /\ lifecycle' = "unmounted"
    /\ componentIsMounted' = UnmountFlagRefOnly(componentIsMounted)
    /\ UNCHANGED <<more, updateQueue, effectsPending, joke, requests, commits,
                   version, writesInRun, triggerChanges, refJoke>>

(* if (componentIsMounted.current) *)
MountedGuardRefOnly(flag) == flag

(* lines 77-84 for a delivered response *)
ContinueRefOnly(r, d) ==
    IF DestructureThrows(d)
    THEN /\ requests' = Settle(r, "fulfilled", d, "error")
         /\ UNCHANGED <<joke, commits, writesInRun>>
    ELSE IF MountedGuardRefOnly(componentIsMounted)
    THEN IF JokeThrows(d)
         THEN /\ requests' = Settle(r, "fulfilled", d, "error")
              /\ UNCHANGED <<joke, commits, writesInRun>>
         ELSE /\ requests' = Settle(r, "fulfilled", d, "none")
              /\ joke' = SetJoke(joke, JokeOf(d))
              /\ commits' = Append(commits, r)
              /\ writesInRun' = writesInRun + 1
    ELSE /\ requests' = Settle(r, "fulfilled", d, "none")
         /\ UNCHANGED <<joke, commits, writesInRun>>

ResolveRefOnly(r, d) ==
    /\ requests[r].state = "inflight"
    /\ ContinueRefOnly(r, d)
    /\ UNCHANGED <<more, updateQueue, effectsPending, lifecycle, componentIsMounted,
                   version, triggerChanges, refJoke>>

(* catch: console.error *)
RejectRefOnly(r) ==
    /\ requests[r].state = "inflight"
    /\ requests' = Settle(r, "rejected", NoData, "error")
    /\ UNCHANGED <<more, updateQueue, effectsPending, lifecycle, componentIsMounted,
                   joke, commits, version, writesInRun, triggerChanges, refJoke>>

InitRefOnly == InitCommon /\ version = "refOnly"

NextRefOnly ==
    \/ LoadMore
    \/ Render
    \/ FlushEffectsRefOnly
    \/ UnmountRefOnly
    \/ \E r \in 1..Len(requests) : \E d \in ResponseData : ResolveRefOnly(r, d)
    \/ \E r \in 1..Len(requests) : RejectRefOnly(r)

SpecRefOnly == InitRefOnly /\ [][NextRefOnly]_vars

(* ---- RandomJoke, first version (lines 99-126) ---- *)

RunEffectFirst(reqs) == Append(reqs, NewRequest)

FlushEffectsFirst ==
    /\ lifecycle = "mounted"
    /\ effectsPending
    /\ Len(requests) < MaxRequests
    /\ requests' = RunEffectFirst(requests)
    /\ effectsPending' = FALSE
    /\ writesInRun' = 0
    /\ UNCHANGED <<more, updateQueue, lifecycle, componentIsMounted, joke, commits,
                   version, triggerChanges, refJoke>>

(* no effect has a cleanup: unmounting runs no code of the component *)
UnmountFirst ==
    /\ lifecycle = "mounted"
    /\ ~effectsPending
    /\ lifecycle' = "unmounted"
    /\ UNCHANGED <<more, updateQueue, effectsPending, componentIsMounted, joke,
                   requests, commits, version, writesInRun, triggerChanges, refJoke>>

CallsSetJokeIfAlive(alive) == alive

(* line 110: setJoke is called whether or not the component is alive *)
CallsSetJokeFirst(alive) == TRUE

(* lines 109-113 for a delivered response.  commits records the call of    *)
(* setJoke; React drops a state update of an unmounted component (with a   *)
(* warning), so the stored text changes only while mounted.                *)
ContinueFirst(r, d) ==
    IF DestructureThrows(d) \/ JokeThrows(d)
    THEN /\ requests' = Settle(r, "fulfilled", d, "error")
         /\ UNCHANGED <<joke, commits, writesInRun>>
    ELSE IF CallsSetJokeFirst(lifecycle = "mounted")
    THEN /\ requests' = Settle(r, "fulfilled", d, "none")
         /\ joke' = IF lifecycle = "mounted" THEN SetJoke(joke, JokeOf(d)) ELSE joke
         /\ commits' = Append(commits, r)
         /\ writesInRun' = writesInRun + 1
    ELSE /\ requests' = Settle(r, "fulfilled", d, "none")
         /\ UNCHANGED <<joke, commits, writesInRun>>

ResolveFirst(r, d) ==
    /\ requests[r].state = "inflight"
    /\ ContinueFirst(r, d)
    /\ UNCHANGED <<more, updateQueue, effectsPending, lifecycle, componentIsMounted,
                   version, triggerChanges, refJoke>>

(* catch: console.error *)
RejectFirst(r) ==
    /\ requests[r].state = "inflight"
    /\ requests' = Settle(r, "rejected", NoData, "error")
    /\ UNCHANGED <<more, updateQueue, effectsPending, lifecycle, componentIsMounted,
                   joke, commits, version, writesInRun, triggerChanges, refJoke>>

InitFirst == InitCommon /\ version = "first"

NextFirst ==
    \/ LoadMore
    \/ Render
    \/ FlushEffectsFirst
    \/ UnmountFirst
    \/ \E r \in 1..Len(requests) : \E d \in ResponseData : ResolveFirst(r, d)
    \/ \E r \in 1..Len(requests) : RejectFirst(r)

SpecFirst == InitFirst /\ [][NextFirst]_vars

(* ---- either of the two earlier versions ---- *)

InitEarlier == InitCommon /\ version \in {"first", "refOnly"}

NextEarlier ==
    \/ version = "first" /\ NextFirst
    \/ version = "refOnly" /\ NextRefOnly

SpecEarlier == InitEarlier /\ [][NextEarlier]_vars

(* ---- properties ---- *)

Settled(r) == requests[r].state # "inflight"
AllSettled == \A r \in 1..Len(requests) : Settled(r)
Succeeded(r) == requests[r].state = "fulfilled" /\ requests[r].data.kind = "joke"
Committed(r) == \E i \in 1..Len(commits) : commits[i] = r
SettlesNow(r) == requests[r].state = "inflight" /\ requests'[r].state # "inflight"

(* C1: while the component stays mounted, once every request has settled,  *)
(* if the request of the last effect run succeeded then the joke text is   *)
(* the joke that request returned, whatever the completion order was.      *)
C1_LastRequestWins ==
    (/\ lifecycle = "mounted"
     /\ requests # <<>>
     /\ AllSettled
     /\ Succeeded(Len(requests)))
    => joke = Last(requests).data.joke

(* two requests and more, an earlier one committed another joke, an        *)
(* earlier one was cancelled, the last one succeeded                       *)
C1_Witness ==
    /\ lifecycle = "mounted"
    /\ Len(requests) >= 2
    /\ AllSettled
    /\ Succeeded(Len(requests))
    /\ \E r \in 1..(Len(requests) - 1) : requests[r].state = "cancelled"
    /\ \E r \in 1..(Len(requests) - 1) :
          Committed(r) /\ Succeeded(r) /\ requests[r].data.joke # joke

(* C2: once the component is unmounted setJoke is never called again and   *)
(* the joke text keeps the value it had at unmount, whatever completes     *)
(* later (also when a cancelled request still delivers its response).      *)
C2_NoWriteAfterUnmount ==
    [][lifecycle = "unmounted" => (joke' = joke /\ commits' = commits)]_vars

(* a response with another joke was delivered after unmount *)
C2_Witness ==
    /\ lifecycle = "unmounted"
    /\ \E r \in 1..Len(requests) :
          /\ requests[r].settledWhen = "unmounted"
          /\ Succeeded(r)
          /\ requests[r].data.joke # joke

(* C3: whenever setJoke is called, the calling request is the one issued   *)
(* by the most recent run of the fetch effect.                             *)
C3_OnlyLatestCommits ==
    [][commits' # commits =>
          /\ Len(commits') = Len(commits) + 1
          /\ Last(commits') = Len(requests)]_vars

(* a superseded request has settled and a later request has committed *)
C3_Witness ==
    /\ Len(requests) >= 2
    /\ \E r \in 1..(Len(requests) - 1) : Settled(r) /\ ~Committed(r)
    /\ Committed(Len(requests))

(* C4: when a request ends in a failure (cancellation, transport error, or *)
(* a response whose data lacks value.joke) the joke text is left as it was *)
C4_FailureLeavesJoke ==
    [][\A r \in 1..Len(requests) :
          (SettlesNow(r) /\ ~(requests'[r].state = "fulfilled"
                              /\ requests'[r].data.kind = "joke"))
          => joke' = joke]_vars

(* C5: a response { value: { joke: X } } delivered while the component is  *)
(* mounted and the request is not cancelled makes the joke text exactly X. *)
C5_SuccessReplacesJoke ==
    [][\A r \in 1..Len(requests) :
          (/\ SettlesNow(r)
           /\ requests'[r].state = "fulfilled"
           /\ requests'[r].data.kind = "joke"
           /\ componentIsMounted
           /\ ~requests[r].cancelled)
          => joke' = requests'[r].data.joke]_vars

(* a second commit replaced a different, non-empty joke *)
C5_Witness ==
    /\ Len(commits) >= 2
    /\ Succeeded(commits[1])
    /\ Succeeded(Last(commits))
    /\ requests[commits[1]].data.joke # requests[Last(commits)].data.joke
    /\ joke = requests[Last(commits)].data.joke

(* C6: after unmount no request has an uncancelled handle.                 *)
C6_UnmountCancels ==
    lifecycle = "unmounted" => \A r \in 1..Len(requests) : requests[r].cancelled

(* unmounted while the latest request is still in flight *)
C6_Witness ==
    /\ lifecycle = "unmounted"
    /\ requests # <<>>
    /\ Last(requests).state = "inflight"
    /\ Last(requests).cancelled

(* C7: componentIsMounted is true exactly while the component is mounted,  *)
(* and once false it is never true again.                                  *)
C7_LivenessFlag ==
    /\ [](componentIsMounted <=> (lifecycle = "mounted"))
    /\ [][~componentIsMounted => ~componentIsMounted']_vars

(* the flag is false and a request has completed after teardown *)
C7_Witness ==
    /\ ~componentIsMounted
    /\ \E r \in 1..Len(requests) : requests[r].settledWhen = "unmounted"

(* C8: every invocation of loadMore flips the trigger relative to its      *)
(* value immediately before the invocation, also when several invocations  *)
(* are made before the component has re-rendered.                          *)
C8_LoadMoreFlips ==
    [][Len(updateQueue') > Len(updateQueue)
          => CurrentTrigger' = ~CurrentTrigger]_vars

(* C9: at most one request has an uncancelled handle, and every request    *)
(* that is not the latest has been cancelled.                              *)
C9_OnlyLatestUncancelled ==
    /\ Cardinality({r \in 1..Len(requests) : ~requests[r].cancelled}) <= 1
    /\ \A r \in 1..(Len(requests) - 1) : requests[r].cancelled

(* rapid trigger changes: two superseded requests still in flight *)
C9_Witness ==
    /\ Len(requests) >= 3
    /\ requests[1].state = "inflight"
    /\ requests[2].state = "inflight"
    /\ ~Last(requests).cancelled

(* C10: a response delivered after unmount is never committed, also when   *)
(* it is the successful response of a cancelled request.                   *)
C10_LivenessCheckBlocks ==
    \A r \in 1..Len(requests) :
        (requests[r].state = "fulfilled" /\ requests[r].settledWhen = "unmounted")
        => ~Committed(r)

(* a cancelled request delivered a joke after unmount *)
C10_Witness ==
    \E r \in 1..Len(requests) :
        /\ requests[r].cancelled
        /\ Succeeded(r)
        /\ requests[r].settledWhen = "unmounted"

(* C11: between one run of the fetch effect and the next run (or unmount)  *)
(* setJoke is called at most once.                                         *)
C11_OneWritePerRun == writesInRun <= 1

(* the second interval has had its write, after an earlier write and after *)
(* the superseded request settled                                          *)
C11_Witness ==
    /\ Len(requests) >= 2
    /\ Len(commits) >= 2
    /\ writesInRun = 1
    /\ \E r \in 1..(Len(requests) - 1) : requests[r].state = "cancelled"

(* C12: one request per run of the fetch effect: the requests issued (plus *)
(* the run still pending) number one plus the renders that saw `more`      *)
(* changed, and a request is only ever issued by a run of the effect.      *)
C12_OneRequestPerRun ==
    /\ [](Len(requests) + (IF effectsPending THEN 1 ELSE 0) = 1 + triggerChanges)
    /\ [][Len(requests') # Len(requests) =>
             /\ effectsPending /\ ~effectsPending'
             /\ Len(requests') = Len(requests) + 1]_vars

(* two trigger changes, a failed and a cancelled request, three requests *)
C12_Witness ==
    /\ triggerChanges = 2
    /\ Len(requests) = 3
    /\ \E r \in 1..Len(requests) : requests[r].state = "rejected"
    /\ \E r \in 1..Len(requests) : requests[r].state = "cancelled"

(* C13: a request that ended by cancellation was logged with console.info  *)
(* and not console.error; a request that ended in any other failure        *)
(* (transport error, response without value.joke) was logged with          *)
(* console.error.                                                          *)
C13_FailureLogging ==
    \A r \in 1..Len(requests) :
        /\ requests[r].state = "cancelled" => requests[r].logged = "info"
        /\ (Settled(r) /\ requests[r].state # "cancelled" /\ ~Succeeded(r))
              => requests[r].logged = "error"

C15_FirstWritesAfterUnmount ==
    \A r \in 1..Len(requests) :
        /\ ~requests[r].cancelled
        /\ (/\ requests[r].state = "fulfilled"
            /\ requests[r].settledWhen = "unmounted"
            /\ ~DestructureThrows(requests[r].data)
            /\ ~JokeThrows(requests[r].data))
           => Committed(r)

(* unmounted with the request in flight, then its joke arrived and setJoke *)
(* was called                                                              *)
C15_Witness ==
    /\ version = "first"
    /\ lifecycle = "unmounted"
    /\ \E r \in 1..Len(requests) :
          /\ Succeeded(r)
          /\ requests[r].settledWhen = "unmounted"
          /\ Last(commits) = r

(* C16: in the first and in the ref-only version every joke delivered      *)
(* while the component is mounted is written, by the latest request or by  *)
(* an earlier one, so the joke text is the result that arrived last.       *)
C16_LastArrivalWins ==
    /\ []((lifecycle = "mounted" /\ commits # <<>> /\ Succeeded(Last(commits)))
             => joke = requests[Last(commits)].data.joke)
    /\ [][\A r \in 1..Len(requests) :
             (/\ SettlesNow(r)
              /\ lifecycle = "mounted"
              /\ requests'[r].state = "fulfilled"
              /\ requests'[r].data.kind = "joke")
             => (joke' = requests'[r].data.joke /\ Last(commits') = r)]_vars

(* two requests in flight together; the first finished after the second    *)
(* and the text is the first one's joke, not the latest request's          *)
C16_Witness ==
    /\ lifecycle = "mounted"
    /\ Len(requests) = 2
    /\ commits = <<2, 1>>
    /\ Succeeded(1)
    /\ Succeeded(2)
    /\ joke = requests[1].data.joke
    /\ joke # requests[2].data.joke

(* C17: in the ref-only version setJoke is never called once the component *)
(* is unmounted, although no request is ever cancelled.                    *)
C17_RefOnlyNoWriteAfterUnmount ==
    /\ [](\A r \in 1..Len(requests) : ~requests[r].cancelled)
    /\ [][lifecycle = "unmounted" => commits' = commits]_vars

(* two jokes arrived after unmount, in the reverse order of their requests *)
C17_Witness ==
    /\ version = "refOnly"
    /\ lifecycle = "unmounted"
    /\ Len(requests) >= 2
    /\ \A r \in 1..2 : Succeeded(r) /\ requests[r].settledWhen = "unmounted"
    /\ \A r \in 1..Len(requests) : ~Committed(r)

====
